---- MODULE Spec2Model ----
(***************************************************************************)
(* Model of osu_to_prometheus (src/main.py): the ErrorTracker, the token   *)
(* fetch, the per-identity polling loop of main, the conversion of a       *)
(* statistics record into flat gauge values and the gauge registry.        *)
(*                                                                         *)
(* The remote API is the environment: every outcome requests can produce   *)
(* for a call (a transport exception, any status, any JSON body of the     *)
(* sample shapes below) is a nondeterministic input of the step that makes *)
(* the call.  One action models one path through the body of the           *)
(* per-identity loop (lines 154-189), one the sleep between cycles and two *)
(* the start-up token fetch.                                               *)
(***************************************************************************)
EXTENDS Integers, Sequences, FiniteSets, TLC

VARIABLES
    pc,                         \* position of main: "start", "loop", "sleep", "exited"
    idx,                        \* index into config["user_ids"] of the identity processed next
    access_token,               \* main's access_token (0: none obtained yet)
    intervals_with_errors,      \* ErrorTracker.intervals_with_errors
    max_intervals_with_errors,  \* ErrorTracker.max_intervals_with_errors (from the config)
    gauges,                     \* gauge registry: <<metric key, label values>> -> value
    exit_cause,                 \* "none", "threshold" (exit(1)), "uncaught" (traceback)
    ev,                         \* history: what the last step did
    pe_calls,                   \* history: process_error calls since start or last reset
    cycle_errors,               \* history: process_error calls in the current cycle
    cycle_fetched,              \* history: identities fetched in the current cycle, in order
    data,                       \* main's local `data` when the conversion is run on its own
    stats,                      \* main's local `stats` when the conversion is run on its own
    error_cycles,               \* history: cycles in which process_error was called
    cycle                       \* history: number of the current cycle, counted under
                                \* SpecOutage only (0: not counted)

vars == <<pc, idx, access_token, intervals_with_errors, max_intervals_with_errors,
          gauges, exit_cause, ev, pe_calls, cycle_errors, cycle_fetched,
          data, stats, error_cycles, cycle>>

\* ------------------------------------------------------------------ bounds

\* config["max_intervals_with_errors"] ranges over 0..MaxMaxErrors
MaxMaxErrors == 1
\* number of entries of config["user_ids"]
NumUsers == 2
\* number of distinct bearer tokens the token endpoint hands out
NumTokens == 2
\* numeric values of a statistics record range over 1..MaxValue
MaxValue == 2

\* ------------------------------------------------------------------ configuration and environment

user_ids == [i \in 1..NumUsers |-> i]

Tokens == 1..NumTokens

\* statuses of the stats endpoint other than 200 and 401
OtherStatuses == {404, 500}

\* ------------------------------------------------------------------ JSON values

JNum(n) == [kind |-> "num", val |-> n]
JStr(s) == [kind |-> "str", val |-> s]
JNull == [kind |-> "null"]
JObj(f) == [kind |-> "obj", fields |-> f]
\* a body that is no JSON document
NotJson == [kind |-> "notjson"]
\* an exception raised while evaluating an expression
Raise(e) == [kind |-> "raise", exc |-> e]
IsRaise(v) == v.kind = "raise"

EmptyFields == [k \in {} |-> JNull]

\* Python's x[k]
GetItem(x, k) ==
    IF x.kind # "obj" THEN Raise("TypeError")
    ELSE IF k \notin DOMAIN x.fields THEN Raise("KeyError")
    ELSE x.fields[k]

\* Python's x[k] = v on a dict x
SetItem(x, k, v) == JObj((k :> v) @@ x.fields)

\* ------------------------------------------------------------------ gauge definitions

\* the keys of the module-level dict `gauges`
GaugeKeys ==
    {"total_hits", "play_count", "ranked_score", "total_score", "global_rank",
     "country_rank", "level", "pp", "hit_accuracy", "grade_counts_ss",
     "grade_counts_ssh", "grade_counts_s", "grade_counts_sh", "grade_counts_a",
     "play_time"}

\* ------------------------------------------------------------------ conversion of a record

\* f"grade_counts_{key}"
GradeKey(g) == "grade_counts_" \o g

\* a loop that stores the count under the bare grade code
FlattenGrades_Unprefixed(st, gc) ==
    JObj([k \in DOMAIN st.fields \cup DOMAIN gc.fields |->
            IF k \in DOMAIN gc.fields THEN gc.fields[k] ELSE st.fields[k]])

\* lines 182-183: every (grade, count) pair of gc is stored into stats under
\* grade_counts_<grade>; every other entry of stats, grade_counts included, stays
FlattenGrades(st, gc) ==
    LET new == {GradeKey(g) : g \in DOMAIN gc.fields}
    IN  JObj([k \in DOMAIN st.fields \cup new |->
                IF k \in new
                THEN gc.fields[CHOOSE g \in DOMAIN gc.fields : GradeKey(g) = k]
                ELSE st.fields[k]])

\* lines 179-183: response.json(), data["statistics"], the level replacement and the
\* flattening loop; the result is the stats dict, or the exception raised on the way
ConvertStats(body) ==
    IF body.kind = "notjson" THEN Raise("JSONDecodeError") ELSE
    LET stats0 == GetItem(body, "statistics") IN
    IF IsRaise(stats0) THEN stats0 ELSE
    LET level == GetItem(stats0, "level") IN
    IF IsRaise(level) THEN level ELSE
    LET current == GetItem(level, "current") IN
    IF IsRaise(current) THEN current ELSE
    LET stats1 == SetItem(stats0, "level", current) IN
    LET gc == GetItem(stats1, "grade_counts") IN
    IF IsRaise(gc) THEN gc ELSE
    IF gc.kind # "obj" THEN Raise("AttributeError") ELSE
    FlattenGrades(stats1, gc)

\* ------------------------------------------------------------------ gauge updates

\* a loop that sends every key of stats to a gauge, without the test of line 186
GaugeKeysOf_All(st) == DOMAIN st.fields

\* line 186: the keys of stats the loop of lines 185-187 sends to a gauge
GaugeKeysOf(st) == {k \in DOMAIN st.fields : k \in GaugeKeys}

\* line 187: labels(user_id=data["id"], username=data["username"]); absent: an exception
LabelsOf(rec) == <<GetItem(rec, "id"), GetItem(rec, "username")>>

LabelsRaise(rec) == IsRaise(LabelsOf(rec)[1]) \/ IsRaise(LabelsOf(rec)[2])

\* children labelled with the first configured identity, whoever the record is about
LabelValues_FirstIdentity(rec) == <<user_ids[1], LabelsOf(rec)[2].val>>

\* the label values of the child, as the registry keeps them
LabelValues(rec) == <<LabelsOf(rec)[1].val, LabelsOf(rec)[2].val>>

\* line 187: Gauge.set(value) is float(value): only a number is accepted
Settable(v) == v.kind = "num"

\* lines 185-187 raise: a label value is missing, or a value sent to a gauge is no number
SetRaises(rec, st) ==
    /\ GaugeKeysOf(st) # {}
    /\ \/ LabelsRaise(rec)
       \/ \E k \in GaugeKeysOf(st) : ~Settable(st.fields[k])

\* gauges that add the record's value to the child's value (Gauge.inc) instead of
\* setting it
SetGauges_Accumulate(g, rec, st, keys) ==
    LET set == {<<k, LabelValues(rec)>> : k \in keys}
    IN  [c \in DOMAIN g \cup set |->
            IF c \in set
            THEN (IF c \in DOMAIN g THEN g[c] ELSE 0) + st.fields[c[1]].val
            ELSE g[c]]

\* lines 185-187 for the keys in `keys`: the child of each of these gauges for the
\* record's label pair is set to the record's value, every other child is left alone.
\* The registry g maps <<metric key, label values>> of the existing children to values.
SetGauges(g, rec, st, keys) ==
    LET set == {<<k, LabelValues(rec)>> : k \in keys}
    IN  [c \in DOMAIN g \cup set |-> IF c \in set THEN st.fields[c[1]].val ELSE g[c]]

\* the registry after start-up: no gauge has a child
NoGauges == [c \in {} |-> 0]

\* ------------------------------------------------------------------ sample responses

Values == 1..MaxValue

\* the objects with at most the key k, its value drawn from vals
Optional(k, vals) == {EmptyFields} \cup {(k :> x) : x \in vals}

\* the statistics object of the expected shape holding the number v: statistics with
\* a gauge (pp, level), one without (maximum_combo), a grade with a gauge ("s") and
\* one without ("b")
ValidStatistics(v) ==
    ("pp" :> JNum(v)) @@ ("level" :> JObj("current" :> JNum(v)))
        @@ ("grade_counts" :> JObj(("s" :> JNum(v)) @@ ("b" :> JNum(v))))
        @@ ("maximum_combo" :> JNum(v))

Record(uid, statistics) ==
    JObj(("id" :> JNum(uid)) @@ ("username" :> JStr("foo")) @@ ("statistics" :> statistics))

\* 200 bodies of the documented shape for identity uid
ValidBodies(uid) == {Record(uid, JObj(ValidStatistics(v))) : v \in Values}

FullStatistics == ValidStatistics(1)

Without(f, k) == [x \in DOMAIN f \ {k} |-> f[x]]

\* 200 bodies of an unexpected shape, each with one defect
MalformedBodies(uid) ==
    { NotJson,
      JObj(("id" :> JNum(uid)) @@ ("username" :> JStr("foo"))),
      Record(uid, JNull),
      Record(uid, JObj(Without(FullStatistics, "level"))),
      Record(uid, JObj(("level" :> JNum(1)) @@ FullStatistics)),
      Record(uid, JObj(("level" :> JObj(EmptyFields)) @@ FullStatistics)),
      Record(uid, JObj(Without(FullStatistics, "grade_counts"))),
      Record(uid, JObj(("grade_counts" :> JNull) @@ FullStatistics)) }

\* 200 bodies of the expected shape that lines 185-187 cannot send to the gauges: a
\* null statistic (the rank of an inactive user), a missing id, a missing username
UnsettableBodies(uid) ==
    { Record(uid, JObj(("global_rank" :> JNull) @@ ("level" :> JObj("current" :> JNum(1)))
                           @@ ("grade_counts" :> JObj(EmptyFields)))),
      JObj(("username" :> JStr("foo")) @@ ("statistics" :> JObj(FullStatistics))),
      JObj(("id" :> JNum(uid)) @@ ("statistics" :> JObj(FullStatistics))) }

Bodies(uid) == ValidBodies(uid) \cup MalformedBodies(uid) \cup UnsettableBodies(uid)

Response(status, body) == [status |-> status, body |-> body]

\* the outcome of a request that raised requests.RequestException: no response
RequestException == Response(0, JNull)

\* what request_user_data can return for identity uid with a status other than 401
Answers(uid) ==
    {Response(s, JNull) : s \in OtherStatuses} \cup {Response(200, b) : b \in Bodies(uid)}

Unauthorized == Response(401, JNull)

\* ------------------------------------------------------------------ ErrorTracker

\* a tracker that already gives up when the maximum is reached
Exceeded_AtMaximum(count, max) == count >= max

\* a tracker that tolerates one more error than the configured maximum
Exceeded_OffByOne(count, max) == count > max + 1

\* line 101: the test that ends the process
Exceeded(count, max) == count > max

\* ErrorTracker.process_error (lines 98-103): count the error, exit(1) past the maximum
process_error ==
    /\ intervals_with_errors' = intervals_with_errors + 1
    /\ pe_calls' = pe_calls + 1
    /\ cycle_errors' = cycle_errors + 1
    /\ error_cycles' = IF cycle_errors = 0 THEN error_cycles + 1 ELSE error_cycles
    /\ exit_cause' = IF Exceeded(intervals_with_errors + 1, max_intervals_with_errors)
                     THEN "threshold"
                     ELSE exit_cause

\* ErrorTracker.reset (lines 105-106); main never calls it
reset(count) == 0

\* ------------------------------------------------------------------ main

\* history record of a step of the per-identity loop: the path taken, the identity, the
\* token sent with each request, what each request came back with, and whether
\* get_token was called at line 164 ("none") and returned ("ok") or raised ("raised")
Event(kind, tokens, outcomes, refresh) ==
    [kind |-> kind, user |-> user_ids[idx], tokens |-> tokens, outcomes |-> outcomes,
     refresh |-> refresh, clean |-> FALSE]

\* history record of a step outside the per-identity loop; refresh tells how the
\* get_token call of line 151 ended, clean that the step is a sleep that ends a cycle
\* in which process_error was not called
Note(kind, refresh, clean) ==
    [kind |-> kind, user |-> 0, tokens |-> <<>>, outcomes |-> <<>>,
     refresh |-> refresh, clean |-> clean]

\* the fetch of line 156 is the first one for this identity in this cycle
NoteFetched == cycle_fetched' = Append(cycle_fetched, user_ids[idx])

\* a `continue` of the while loop after process_error: the identity list is started
\* again without the sleep of line 191
Break_Restart ==
    /\ pc' = IF exit_cause' = "threshold" THEN "exited" ELSE "loop"
    /\ idx' = IF exit_cause' = "threshold" THEN idx ELSE 1

\* `break` (lines 159, 169) after process_error: the for loop is left for line 191,
\* unless process_error ended the process
Break ==
    /\ pc' = IF exit_cause' = "threshold" THEN "exited" ELSE "sleep"
    /\ idx' = idx

\* a `break` where the code has `continue`
Continue_AsBreak ==
    /\ pc' = "sleep"
    /\ idx' = idx

\* a loop that goes on without advancing to the next identity
Continue_SameIdentity ==
    /\ pc' = "loop"
    /\ idx' = idx

\* `continue` (line 176) or the end of the loop body (line 189): the next identity, or
\* line 191 after the last one
Continue ==
    /\ pc' = IF idx < NumUsers THEN "loop" ELSE "sleep"
    /\ idx' = IF idx < NumUsers THEN idx + 1 ELSE idx

\* an exception nothing catches: the interpreter prints the traceback and ends the
\* process with status 1
Uncaught ==
    /\ pc' = "exited"
    /\ exit_cause' = "uncaught"
    /\ idx' = idx

\* lines 171-189 for the response resp, whose status is not 401
Finish(resp, tokens, outcomes, refresh) ==
    IF resp.status # 200
    THEN \* lines 171-176
         /\ Continue
         /\ ev' = Event("skipped", tokens, outcomes, refresh)
         /\ UNCHANGED <<gauges, exit_cause>>
    ELSE LET record == resp.body
             mapped == ConvertStats(record)
         IN  IF IsRaise(mapped)
             THEN \* lines 179-183 raise
                  /\ Uncaught
                  /\ ev' = Event("convert_raised", tokens, outcomes, refresh)
                  /\ UNCHANGED gauges
             ELSE IF SetRaises(record, mapped)
             THEN \* lines 185-187 raise at the first key they cannot set; the gauges
                  \* of the keys that came earlier in the dict are already set
                  /\ Uncaught
                  /\ ev' = Event("set_raised", tokens, outcomes, refresh)
                  /\ \E done \in SUBSET {k \in GaugeKeysOf(mapped) : Settable(mapped.fields[k])} :
                        /\ LabelsRaise(record) => done = {}
                        /\ gauges' = SetGauges(gauges, record, mapped, done)
             ELSE \* lines 185-189
                  /\ gauges' = SetGauges(gauges, record, mapped, GaugeKeysOf(mapped))
                  /\ Continue
                  /\ ev' = Event("updated", tokens, outcomes, refresh)
                  /\ UNCHANGED exit_cause

\* line 151: the first token is obtained
StartTokenOk ==
    /\ UNCHANGED <<data, stats, error_cycles, cycle>>
    /\ pc = "start"
    /\ \E t \in Tokens : access_token' = t
    /\ pc' = "loop"
    /\ ev' = Note("token", "ok", FALSE)
    /\ UNCHANGED <<idx, intervals_with_errors, max_intervals_with_errors, gauges,
                   exit_cause, pe_calls, cycle_errors, cycle_fetched>>

\* a start-up that swallows the exception of get_token and enters the loop
StartTokenFails_Ignored ==
    /\ UNCHANGED <<data, stats, error_cycles, cycle>>
    /\ pc = "start"
    /\ pc' = "loop"
    /\ ev' = Note("token_raised", "raised", FALSE)
    /\ UNCHANGED <<idx, access_token, intervals_with_errors, max_intervals_with_errors,
                   gauges, exit_cause, pe_calls, cycle_errors, cycle_fetched>>

\* line 151: get_token raises (lines 110, 121, 123) and nothing catches it
StartTokenFails ==
    /\ UNCHANGED <<data, stats, error_cycles, cycle>>
    /\ pc = "start"
    /\ Uncaught
    /\ ev' = Note("token_raised", "raised", FALSE)
    /\ UNCHANGED <<access_token, intervals_with_errors, max_intervals_with_errors, gauges,
                   pe_calls, cycle_errors, cycle_fetched>>

\* an except block that logs the exception and goes on with the next identity
FetchRaises_Untracked ==
    /\ UNCHANGED <<data, stats, error_cycles, cycle>>
    /\ pc = "loop"
    /\ NoteFetched
    /\ Continue
    /\ ev' = Event("fetch_raised", <<access_token>>, <<RequestException>>, "none")
    /\ UNCHANGED <<access_token, intervals_with_errors, max_intervals_with_errors, gauges,
                   exit_cause, pe_calls, cycle_errors>>

\* an except block that tracks the error and goes on with the next identity
FetchRaises_NoBreak ==
    /\ UNCHANGED <<data, stats, cycle>>
    /\ pc = "loop"
    /\ NoteFetched
    /\ process_error
    /\ IF exit_cause' = "threshold" THEN pc' = "exited" /\ idx' = idx ELSE Continue
    /\ ev' = Event("fetch_raised", <<access_token>>, <<RequestException>>, "none")
    /\ UNCHANGED <<access_token, max_intervals_with_errors, gauges>>

\* lines 155-159: the request raises requests.RequestException
FetchRaises ==
    /\ UNCHANGED <<data, stats, cycle>>
    /\ pc = "loop"
    /\ NoteFetched
    /\ process_error
    /\ Break
    /\ ev' = Event("fetch_raised", <<access_token>>, <<RequestException>>, "none")
    /\ UNCHANGED <<access_token, max_intervals_with_errors, gauges>>

\* lines 156, 161, 171-189: the request is answered with a status other than 401
FetchAnswered ==
    /\ UNCHANGED <<data, stats, error_cycles, cycle>>
    /\ pc = "loop"
    /\ NoteFetched
    /\ \E resp \in Answers(user_ids[idx]) : Finish(resp, <<access_token>>, <<resp>>, "none")
    /\ UNCHANGED <<access_token, intervals_with_errors, max_intervals_with_errors,
                   pe_calls, cycle_errors>>

\* lines 156-164: 401, and get_token raises (lines 110, 121, 123); nothing catches it
RefreshRaises ==
    /\ UNCHANGED <<data, stats, error_cycles, cycle>>
    /\ pc = "loop"
    /\ NoteFetched
    /\ Uncaught
    /\ ev' = Event("refresh_raised", <<access_token>>, <<Unauthorized>>, "raised")
    /\ UNCHANGED <<access_token, intervals_with_errors, max_intervals_with_errors, gauges,
                   pe_calls, cycle_errors>>

\* lines 156-165: 401, a new token, and the second request raises
\* requests.RequestException outside any try block
RetryRaises ==
    /\ UNCHANGED <<data, stats, error_cycles, cycle>>
    /\ pc = "loop"
    /\ NoteFetched
    /\ \E t \in Tokens :
          /\ access_token' = t
          /\ ev' = Event("retry_raised", <<access_token, t>>,
                         <<Unauthorized, RequestException>>, "ok")
    /\ Uncaught
    /\ UNCHANGED <<intervals_with_errors, max_intervals_with_errors, gauges,
                   pe_calls, cycle_errors>>

\* a second 401 that is tracked without leaving the for loop
RetryUnauthorized_NoBreak ==
    /\ UNCHANGED <<data, stats, cycle>>
    /\ pc = "loop"
    /\ NoteFetched
    /\ \E t \in Tokens :
          /\ access_token' = t
          /\ ev' = Event("retry_unauthorized", <<access_token, t>>,
                         <<Unauthorized, Unauthorized>>, "ok")
    /\ process_error
    /\ IF exit_cause' = "threshold" THEN pc' = "exited" /\ idx' = idx ELSE Continue
    /\ UNCHANGED <<max_intervals_with_errors, gauges>>

\* lines 156-169: 401, a new token, and 401 again
RetryUnauthorized ==
    /\ UNCHANGED <<data, stats, cycle>>
    /\ pc = "loop"
    /\ NoteFetched
    /\ \E t \in Tokens :
          /\ access_token' = t
          /\ ev' = Event("retry_unauthorized", <<access_token, t>>,
                         <<Unauthorized, Unauthorized>>, "ok")
    /\ process_error
    /\ Break
    /\ UNCHANGED <<max_intervals_with_errors, gauges>>

\* a retry that is sent before the new token is assigned
RetryAnswered_StaleToken ==
    /\ UNCHANGED <<data, stats, error_cycles, cycle>>
    /\ pc = "loop"
    /\ NoteFetched
    /\ \E t \in Tokens, resp \in Answers(user_ids[idx]) :
          /\ access_token' = t
          /\ Finish(resp, <<access_token, access_token>>, <<Unauthorized, resp>>, "ok")
    /\ UNCHANGED <<intervals_with_errors, max_intervals_with_errors,
                   pe_calls, cycle_errors>>

\* a retry that keeps the new token only when it is answered with 200
RetryAnswered_TokenDropped ==
    /\ UNCHANGED <<data, stats, error_cycles, cycle>>
    /\ pc = "loop"
    /\ NoteFetched
    /\ \E t \in Tokens, resp \in Answers(user_ids[idx]) :
          /\ access_token' = IF resp.status = 200 THEN t ELSE access_token
          /\ Finish(resp, <<access_token, t>>, <<Unauthorized, resp>>, "ok")
    /\ UNCHANGED <<intervals_with_errors, max_intervals_with_errors,
                   pe_calls, cycle_errors>>

\* lines 156-167, 171-189: 401, a new token, and an answer other than 401
RetryAnswered ==
    /\ UNCHANGED <<data, stats, error_cycles, cycle>>
    /\ pc = "loop"
    /\ NoteFetched
    /\ \E t \in Tokens, resp \in Answers(user_ids[idx]) :
          /\ access_token' = t
          /\ Finish(resp, <<access_token, t>>, <<Unauthorized, resp>>, "ok")
    /\ UNCHANGED <<intervals_with_errors, max_intervals_with_errors,
                   pe_calls, cycle_errors>>

\* a sleep followed by a get_token call: a new token for every cycle
Sleep_NewToken ==
    /\ UNCHANGED <<data, stats, error_cycles>>
    /\ cycle' = IF cycle = 0 THEN 0 ELSE cycle + 1
    /\ pc = "sleep"
    /\ pc' = "loop"
    /\ idx' = 1
    /\ ev' = Note("sleep", "none", cycle_errors = 0)
    /\ cycle_errors' = 0
    /\ cycle_fetched' = <<>>
    /\ \E t \in Tokens : access_token' = t
    /\ UNCHANGED <<intervals_with_errors, max_intervals_with_errors, gauges,
                   exit_cause, pe_calls>>

\* line 191, then line 153: the sleep between two cycles
Sleep ==
    /\ UNCHANGED <<data, stats, error_cycles>>
    /\ cycle' = IF cycle = 0 THEN 0 ELSE cycle + 1
    /\ pc = "sleep"
    /\ pc' = "loop"
    /\ idx' = 1
    /\ ev' = Note("sleep", "none", cycle_errors = 0)
    /\ cycle_errors' = 0
    /\ cycle_fetched' = <<>>
    /\ UNCHANGED <<access_token, intervals_with_errors, max_intervals_with_errors, gauges,
                   exit_cause, pe_calls>>

\* lines 148-150: the tracker is built from the config, no token yet, no gauge child
Init ==
    /\ pc = "start"
    /\ idx = 1
    /\ access_token = 0
    /\ intervals_with_errors = 0
    /\ max_intervals_with_errors \in 0..MaxMaxErrors
    /\ gauges = NoGauges
    /\ exit_cause = "none"
    /\ ev = Note("init", "none", FALSE)
    /\ pe_calls = 0
    /\ cycle_errors = 0
    /\ cycle_fetched = <<>>
    /\ data = JNull
    /\ stats = JNull
    /\ error_cycles = 0
    /\ cycle = 0

Next ==
    \/ StartTokenOk
    \/ StartTokenFails
    \/ FetchRaises
    \/ FetchAnswered
    \/ RefreshRaises
    \/ RetryRaises
    \/ RetryUnauthorized
    \/ RetryAnswered
    \/ Sleep

Spec == Init /\ [][Next]_vars

\* ------------------------------------------------------------------ sustained outage

\* main from line 153 on during an outage that lasts: the start-up is as in Init, and
\* the cycles are counted from the first one
InitOutage ==
    /\ pc = "start"
    /\ idx = 1
    /\ access_token = 0
    /\ intervals_with_errors = 0
    /\ max_intervals_with_errors \in 0..MaxMaxErrors
    /\ gauges = NoGauges
    /\ exit_cause = "none"
    /\ ev = Note("init", "none", FALSE)
    /\ pe_calls = 0
    /\ cycle_errors = 0
    /\ cycle_fetched = <<>>
    /\ data = JNull
    /\ stats = JNull
    /\ error_cycles = 0
    /\ cycle = 1

\* the outage: no cycle reaches line 191 without a process_error call (lines 158, 168),
\* and no exception escapes main
OutageStep ==
    /\ pc' = "sleep" => cycle_errors' > 0
    /\ exit_cause' # "uncaught"

NextOutage == Next /\ OutageStep

\* every call of main returns or raises, and time.sleep returns: the process takes its
\* next step as long as it has one
SpecOutage == InitOutage /\ [][NextOutage]_vars /\ WF_vars(NextOutage)

\* ------------------------------------------------------------------ the conversion on its own

\* grade codes of the inputs: two with a gauge, one without
Grades == {"s", "ss", "b"}

\* grade_counts objects: every subset of the grades, each with the count v
GradeCounts(v) == {JObj([g \in G |-> JNum(v)]) : G \in SUBSET Grades}

\* statistics objects built from the number v: pp and maximum_combo may be missing,
\* level is missing, a number, an object without "current" or the expected object,
\* grade_counts is missing, null or an object, and grade_counts_s may already be a
\* key of the input (with another number)
InputStatistics(v) ==
    {pp @@ mc @@ lv @@ gc @@ pre :
        pp \in Optional("pp", {JNum(v)}),
        mc \in Optional("maximum_combo", {JNum(v)}),
        lv \in Optional("level", {JNum(v), JObj(EmptyFields), JObj("current" :> JNum(v))}),
        gc \in Optional("grade_counts", {JNull} \cup GradeCounts(v)),
        pre \in Optional("grade_counts_s", {JNum(v + 1)})}

\* the records the conversion is run on
Inputs ==
    {NotJson, JObj(("id" :> JNum(1)) @@ ("username" :> JStr("foo")))}
        \cup UNION {{Record(1, JObj(st)) : st \in InputStatistics(v)} : v \in Values}

\* lines 179-183 return: `stats` is the converted dict
ConvertReturns ==
    /\ pc = "convert"
    /\ ~IsRaise(ConvertStats(data))
    /\ stats' = ConvertStats(data)
    /\ pc' = "converted"
    /\ UNCHANGED <<idx, access_token, intervals_with_errors, max_intervals_with_errors,
                   gauges, exit_cause, ev, pe_calls, cycle_errors, cycle_fetched, data,
                   error_cycles, cycle>>

\* lines 179-183 raise, and nothing catches the exception
ConvertRaises ==
    /\ pc = "convert"
    /\ IsRaise(ConvertStats(data))
    /\ Uncaught
    /\ UNCHANGED <<access_token, intervals_with_errors, max_intervals_with_errors,
                   gauges, ev, pe_calls, cycle_errors, cycle_fetched, data, stats,
                   error_cycles, cycle>>

\* line 179 is reached with some record
InitMap ==
    /\ pc = "convert"
    /\ data \in Inputs
    /\ stats = JNull
    /\ idx = 1
    /\ access_token = 1
    /\ intervals_with_errors = 0
    /\ max_intervals_with_errors = 0
    /\ gauges = NoGauges
    /\ exit_cause = "none"
    /\ ev = Note("init", "none", FALSE)
    /\ pe_calls = 0
    /\ cycle_errors = 0
    /\ cycle_fetched = <<>>
    /\ error_cycles = 0
    /\ cycle = 0

NextMap ==
    \/ ConvertReturns
    \/ ConvertRaises

SpecMap == InitMap /\ [][NextMap]_vars

\* ------------------------------------------------------------------ C1

\* C1: for every configured maximum, the process has been ended by the tracker's
\* exit(1) exactly when process_error has been called max+1 times (there is never a
\* reset between the calls): not after max or fewer calls, and no call comes after
\* the one that exceeds the maximum.
C1_ThresholdExit ==
    /\ pe_calls <= max_intervals_with_errors + 1
    /\ (pe_calls = max_intervals_with_errors + 1) <=> (exit_cause = "threshold")
    /\ exit_cause = "threshold" => pc = "exited"
    /\ intervals_with_errors = pe_calls

\* the tracker has ended the process at the largest maximum, after max+1 calls
C1_Witness ==
    /\ max_intervals_with_errors = MaxMaxErrors
    /\ pe_calls = MaxMaxErrors + 1
    /\ exit_cause = "threshold"

\* ------------------------------------------------------------------ C2

\* C2: when a cycle has completed without a process_error call, the error count is
\* zero when the next cycle starts.
C2_CleanCycleResets ==
    (pc = "loop" /\ ev.kind = "sleep" /\ ev.clean) => intervals_with_errors = 0

\* ------------------------------------------------------------------ steps of the loop, as the claims name them

\* the outcome of the last request of the step recorded in e
LastOutcome(e) == e.outcomes[Len(e.outcomes)]

\* the step recorded in e got 401, then a new token, then the response resp
RefreshedThen(e, resp) ==
    e.refresh = "ok" /\ e.outcomes = <<Unauthorized, resp>>

\* the gauge child of metric key k for the labels of record data holds the number in v
GaugeHolds(g, k, rec, v) ==
    /\ <<k, LabelValues(rec)>> \in DOMAIN g
    /\ v.kind = "num"
    /\ g[<<k, LabelValues(rec)>>] = v.val

\* the for loop goes on with the identity after idx (the sleep after the last one)
GoesOn ==
    /\ exit_cause' = "none"
    /\ IF idx < NumUsers THEN pc' = "loop" /\ idx' = idx + 1 ELSE pc' = "sleep"

\* ------------------------------------------------------------------ C3

\* C3: in a step where the fetch returns 401, get_token returns a token and the retried
\* fetch returns 200 with a valid record, the first request carried the old token, the
\* retry carries the new one, which is the current token afterwards; the gauges of the
\* record's labels hold the values of the retried response; the error count is
\* unchanged and the loop goes on with the next identity.
C3_RefreshThenSuccess ==
    [][ (/\ pc = "loop"
         /\ Len(ev'.outcomes) = 2
         /\ RefreshedThen(ev', ev'.outcomes[2])
         /\ ev'.outcomes[2].status = 200
         /\ ev'.outcomes[2].body \in ValidBodies(user_ids[idx]))
        => LET rec == ev'.outcomes[2].body
               st == rec.fields["statistics"].fields
           IN  /\ ev'.tokens[1] = access_token
               /\ ev'.tokens[2] = access_token'
               /\ GaugeHolds(gauges', "pp", rec, st["pp"])
               /\ GaugeHolds(gauges', "level", rec, st["level"].fields["current"])
               /\ GaugeHolds(gauges', "grade_counts_s", rec, st["grade_counts"].fields["s"])
               /\ intervals_with_errors' = intervals_with_errors
               /\ pe_calls' = pe_calls
               /\ GoesOn
      ]_vars

\* a refresh replaced the token by a different one, the retry with it updated the
\* gauges of the first identity, and the second identity is next
C3_Witness ==
    /\ pc = "loop" /\ idx = 2
    /\ ev.kind = "updated" /\ ev.refresh = "ok"
    /\ Len(ev.tokens) = 2 /\ ev.tokens[1] # ev.tokens[2] /\ access_token = ev.tokens[2]
    /\ <<"pp", <<1, "foo">>>> \in DOMAIN gauges

\* ------------------------------------------------------------------ C4

\* C4: in a step where the fetch returns 401, get_token returns a token and the retried
\* fetch returns 401 again, process_error is called once, and it is the only call of
\* the cycle; no gauge changes; the for loop is left, so no further identity is fetched
\* in the cycle.
C4_RefreshThenDenied ==
    [][ (pc = "loop" /\ RefreshedThen(ev', Unauthorized))
        => /\ pe_calls' = pe_calls + 1
           /\ cycle_errors' = 1
           /\ gauges' = gauges
           /\ pc' \in {"sleep", "exited"}
           /\ cycle_fetched' = SubSeq(user_ids, 1, idx)
      ]_vars

\* the first identity was denied twice, the second one is skipped: the loop sleeps
C4_Witness ==
    /\ pc = "sleep" /\ idx = 1
    /\ RefreshedThen(ev, Unauthorized)
    /\ cycle_fetched = <<user_ids[1]>>

\* ------------------------------------------------------------------ C5

\* C5: in a step where the first fetch raises requests.RequestException, process_error
\* is called once, and it is the only call of the cycle; no gauge changes; no further
\* identity is fetched; unless the tracker ends the process the loop goes to the sleep,
\* and the step after a sleep starts the next cycle at the first identity.
C5_FetchRaises ==
    [][ /\ (pc = "loop" /\ ev'.outcomes = <<RequestException>>)
           => /\ pe_calls' = pe_calls + 1
              /\ cycle_errors' = 1
              /\ gauges' = gauges
              /\ cycle_fetched' = SubSeq(user_ids, 1, idx)
              /\ IF intervals_with_errors' > max_intervals_with_errors
                 THEN pc' = "exited" /\ exit_cause' = "threshold"
                 ELSE pc' = "sleep" /\ exit_cause' = "none"
        /\ pc = "sleep" => (pc' = "loop" /\ idx' = 1 /\ cycle_fetched' = <<>>)
      ]_vars

\* the fetch of the first identity raised, below the threshold: the loop sleeps
C5_Witness ==
    /\ pc = "sleep" /\ idx = 1
    /\ ev.outcomes = <<RequestException>>
    /\ intervals_with_errors = 1
    /\ cycle_fetched = <<user_ids[1]>>

\* ------------------------------------------------------------------ C6

\* C6: every stats fetch that raises requests.RequestException, the retried one
\* included, is followed by one process_error call and the end of the cycle, and never
\* by an end of the process other than the tracker's.
C6_EveryFetchFailureTracked ==
    (\E i \in 1..Len(ev.outcomes) : ev.outcomes[i] = RequestException)
        => /\ cycle_errors = 1
           /\ pc \in {"sleep", "exited"}
           /\ exit_cause # "uncaught"

\* ------------------------------------------------------------------ C7

\* C7: when get_token raises at line 164, after a fetch returned 401, the process does
\* not end because of it.
C7_RefreshFailureSurvived ==
    (ev.user # 0 /\ ev.refresh = "raised") => (pc # "exited" /\ exit_cause = "none")

\* ------------------------------------------------------------------ C8

ShapeDefects(uid) == MalformedBodies(uid) \ {NotJson}

\* C9: after a 200 response with a record of unexpected shape the process has not
\* ended and the error count of the cycle is unchanged.
C9_MalformedSkipped ==
    (/\ ev.user # 0
     /\ Len(ev.outcomes) >= 1
     /\ LastOutcome(ev).status = 200
     /\ LastOutcome(ev).body \in ShapeDefects(ev.user))
        => (pc # "exited" /\ exit_cause = "none" /\ cycle_errors = 0)

\* ------------------------------------------------------------------ C10

IsNum(v) == v.kind = "num"

\* a record of the documented shape: an object whose "statistics" is an object with a
\* "level" object holding a number under "current", a "grade_counts" object of
\* numbers, and numbers under every other key
ValidRecord(rec) ==
    /\ rec.kind = "obj"
    /\ "statistics" \in DOMAIN rec.fields
    /\ LET st == rec.fields["statistics"]
       IN  /\ st.kind = "obj"
           /\ {"level", "grade_counts"} \subseteq DOMAIN st.fields
           /\ st.fields["level"].kind = "obj"
           /\ "current" \in DOMAIN st.fields["level"].fields
           /\ IsNum(st.fields["level"].fields["current"])
           /\ st.fields["grade_counts"].kind = "obj"
           /\ \A g \in DOMAIN st.fields["grade_counts"].fields :
                 IsNum(st.fields["grade_counts"].fields[g])
           /\ \A k \in DOMAIN st.fields \ {"level", "grade_counts"} : IsNum(st.fields[k])

\* the converted dict holds the count of every grade of the input under
\* grade_counts_<grade>, and the input's level.current under level
GradesAndLevelMapped ==
    LET st == data.fields["statistics"].fields
    IN  /\ \A g \in DOMAIN st["grade_counts"].fields :
              /\ GradeKey(g) \in DOMAIN stats.fields
              /\ stats.fields[GradeKey(g)] = st["grade_counts"].fields[g]
        /\ stats.fields["level"] = st["level"].fields["current"]

Touched(g, g2) == {c \in DOMAIN g2 : c \notin DOMAIN g \/ g2[c] # g[c]}

\* the keys of the mapped statistics of record rec that have no gauge
UndefinedKeys(rec) == DOMAIN ConvertStats(rec).fields \ GaugeKeys

\* C11: there are 15 gauges; in every step each child that is created or changed
\* belongs to one of them and has exactly the two label values id and username of the
\* response the step processed, and no child is removed; a valid record whose mapped
\* statistics hold keys without a gauge is processed without an exception, and no
\* child exists for such a key.
C11_UpdatesOnlyDefinedGauges ==
    [][ /\ Cardinality(GaugeKeys) = 15
        /\ DOMAIN gauges \subseteq DOMAIN gauges'
        /\ \A c \in Touched(gauges, gauges') :
              /\ c[1] \in GaugeKeys
              /\ Len(c[2]) = 2
              /\ c[2] = LabelValues(LastOutcome(ev').body)
        /\ (/\ pc = "loop"
            /\ ev'.outcomes # <<>>
            /\ LastOutcome(ev').status = 200
            /\ LastOutcome(ev').body \in ValidBodies(user_ids[idx]))
           => /\ UndefinedKeys(LastOutcome(ev').body) # {}
              /\ ev'.kind = "updated"
              /\ exit_cause' = "none"
              /\ \A c \in DOMAIN gauges' : c[1] \notin UndefinedKeys(LastOutcome(ev').body)
      ]_vars

\* a record with the keys maximum_combo, grade_counts and grade_counts_b, none of which
\* has a gauge, has been processed and its pp gauge is set
C11_Witness ==
    /\ ev.kind = "updated"
    /\ {"maximum_combo", "grade_counts", "grade_counts_b"}
           \subseteq UndefinedKeys(LastOutcome(ev).body)
    /\ <<"pp", LabelValues(LastOutcome(ev).body)>> \in DOMAIN gauges

\* ------------------------------------------------------------------ C12

\* every gauge of the mapped statistics st holds, for the labels of rec, the value in st
HoldsAll(g, rec, st) ==
    \A k \in GaugeKeysOf(st) : GaugeHolds(g, k, rec, st.fields[k])

\* C12: a step that processes a 200 response to the end leaves, whatever the gauges
\* held before, each gauge of the record's keys at the record's value for the record's
\* labels and every other child as it was; writing the same values once more changes
\* nothing (and the step changes nothing when the gauges held the record's values
\* already); a step that is no such refresh and does not end the process changes no
\* gauge, so that each child holds the value of the last refresh that wrote it.
C12_LastWriteWins ==
    [][ /\ ev'.kind = "updated"
           => LET rec == LastOutcome(ev').body
                  st == ConvertStats(rec)
              IN  /\ HoldsAll(gauges', rec, st)
                  /\ \A c \in DOMAIN gauges :
                        c \notin {<<k, LabelValues(rec)>> : k \in GaugeKeysOf(st)}
                            => gauges'[c] = gauges[c]
                  /\ SetGauges(gauges', rec, st, GaugeKeysOf(st)) = gauges'
                  /\ HoldsAll(gauges, rec, st) => gauges' = gauges
        /\ (ev'.kind # "updated" /\ pc' # "exited") => gauges' = gauges
      ]_vars

\* a refresh in a cycle after the one that set the gauges of the second identity has
\* set the gauges of the first identity to another value than theirs
C12_Witness ==
    /\ ev.kind = "updated"
    /\ ev.user = user_ids[1]
    /\ cycle_fetched = <<user_ids[1]>>
    /\ <<"pp", <<user_ids[2], "foo">>>> \in DOMAIN gauges
    /\ <<"pp", <<user_ids[1], "foo">>>> \in DOMAIN gauges
    /\ gauges[<<"pp", <<user_ids[1], "foo">>>>] = MaxValue
    /\ gauges[<<"pp", <<user_ids[2], "foo">>>>] = 1

\* ------------------------------------------------------------------ C13

\* C13: when the get_token call of start-up has raised, the process has ended with the
\* uncaught exception (exit status 1), no identity has been fetched and no gauge has a
\* child; whenever a fetch has been sent or the loop is running, a token has been
\* obtained, and every request carried an obtained token.
C13_NoFetchWithoutToken ==
    /\ ev.kind = "token_raised"
          => /\ pc = "exited"
             /\ exit_cause = "uncaught"
             /\ access_token = 0
             /\ cycle_fetched = <<>>
             /\ gauges = NoGauges
    /\ (pc \in {"loop", "sleep"} \/ cycle_fetched # <<>> \/ ev.tokens # <<>>)
          => access_token \in Tokens
    /\ \A i \in 1..Len(ev.tokens) : ev.tokens[i] \in Tokens

\* the get_token call of start-up has raised and the process is over
C13_Witness ==
    /\ ev.kind = "token_raised"
    /\ pc = "exited"
    /\ access_token = 0

\* ------------------------------------------------------------------ C14

\* C14: the identities fetched in the current cycle are the first ones of user_ids, in
\* order and each once; while the loop runs they are all processed to the end and the
\* next fetch is for the identity after them; a step sends at most two requests for
\* its identity and asks for at most one token, and the second request is sent only
\* when the first came back with 401 and get_token returned.
C14_PrefixInOrder ==
    /\ Len(cycle_fetched) <= NumUsers
    /\ cycle_fetched = SubSeq(user_ids, 1, Len(cycle_fetched))
    /\ pc = "loop" => Len(cycle_fetched) = idx - 1
    /\ pc = "sleep" => Len(cycle_fetched) = idx
    /\ Len(ev.outcomes) = Len(ev.tokens)
    /\ Len(ev.outcomes) <= 2
    /\ ev.outcomes # <<>>
          => /\ ev.user = cycle_fetched[Len(cycle_fetched)] \/ cycle_fetched = <<>>
             /\ ev.refresh # "none" <=> ev.outcomes[1] = Unauthorized
    /\ Len(ev.outcomes) = 2 <=> (ev.kind \notin {"token", "token_raised"} /\ ev.refresh = "ok")

\* every identity has been fetched in this cycle, the last one twice
C14_Witness ==
    /\ pc = "sleep"
    /\ cycle_fetched = user_ids
    /\ Len(ev.outcomes) = 2
    /\ ev.user = user_ids[NumUsers]

\* ------------------------------------------------------------------ C15

\* C15: a step of the loop that does not end the process goes on with the next
\* identity of the same cycle or, after the last identity and after every
\* process_error call, to the sleep; the step after that is the one sleep, which
\* starts the next cycle at the first identity; no other step starts the identity
\* list again.
C15_SleepBetweenCycles ==
    [][ /\ pc = "loop"
           => /\ pc' \in {"loop", "sleep", "exited"}
              /\ pc' = "loop"
                    => /\ idx < NumUsers
                       /\ idx' = idx + 1
                       /\ cycle_fetched' = Append(cycle_fetched, user_ids[idx])
              /\ (idx = NumUsers \/ cycle_errors' > cycle_errors)
                    => pc' \in {"sleep", "exited"}
        /\ pc = "sleep"
           => /\ ev'.kind = "sleep"
              /\ pc' = "loop"
              /\ idx' = 1
              /\ cycle_fetched' = <<>>
        /\ (pc \in {"loop", "sleep"} /\ pc' = "loop" /\ idx' = 1)
           => (pc = "sleep" /\ ev'.kind = "sleep")
      ]_vars

\* a cycle abandoned at its second identity after a process_error call has been
\* followed by the sleep, and the next cycle is about to fetch the first identity
C15_Witness ==
    /\ pc = "loop"
    /\ idx = 1
    /\ ev.kind = "sleep"
    /\ ~ev.clean
    /\ cycle_fetched = <<>>
    /\ intervals_with_errors = 1
    /\ <<"pp", <<user_ids[1], "foo">>>> \in DOMAIN gauges

\* ------------------------------------------------------------------ C16

\* C16: process_error is called at most once in a cycle; the error count is the
\* number of cycles in which it was called (reset is never called, so all of them
\* count); the count is never above max+1, and the process is over when it is max+1.
C16_OneErrorPerCycle ==
    /\ cycle_errors <= 1
    /\ cycle_errors = 1 => pc \in {"sleep", "exited"}
    /\ intervals_with_errors = error_cycles
    /\ intervals_with_errors <= max_intervals_with_errors + 1
    /\ intervals_with_errors = max_intervals_with_errors + 1 => pc = "exited"

\* the boundary after a cycle without an error that came after a cycle with one
C16_Witness ==
    /\ pc = "loop"
    /\ ev.kind = "sleep"
    /\ ev.clean
    /\ error_cycles = 1
    /\ intervals_with_errors = 1

\* ------------------------------------------------------------------ C17

\* C17: when every cycle records an error, the process is eventually ended by the
\* tracker's exit(1); it ends in cycle number max+1, and no cycle after that one is
\* ever started.
C17_OutageEndsProcess ==
    /\ <>(pc = "exited" /\ exit_cause = "threshold")
    /\ [](exit_cause = "threshold" => cycle = max_intervals_with_errors + 1)
    /\ [](cycle <= max_intervals_with_errors + 1)

\* the tracker has ended the process in cycle max+1 of an outage, at the largest maximum
C17_Witness ==
    /\ exit_cause = "threshold"
    /\ max_intervals_with_errors = MaxMaxErrors
    /\ cycle = MaxMaxErrors + 1
    /\ ev.kind \in {"fetch_raised", "retry_unauthorized"}

\* ------------------------------------------------------------------ C18

\* C18: once the first token is there, the token is assigned only in a step whose
\* first request came back with 401 and whose get_token call returned, and it is then
\* the token that get_token returned, which the retry carries; every other step (a
\* 200, another status, an exception of the request or of get_token, the sleep)
\* leaves it as it was; and the first request of every step carries the current
\* token, so that a new token serves every later identity and cycle until it is
\* replaced in turn.
C18_TokenFrame ==
    [][ (pc = "loop" \/ pc = "sleep")
        => /\ access_token' \in Tokens
           /\ IF pc = "loop" /\ ev'.refresh = "ok"
              THEN /\ ev'.outcomes[1] = Unauthorized
                   /\ ev'.tokens = <<access_token, access_token'>>
              ELSE /\ access_token' = access_token
                   /\ pc = "loop" => ev'.tokens = <<access_token>>
      ]_vars

\* the last identity of a cycle got 401, a token other than the old one, and 200; the
\* new token is the current one during the sleep
C18_Witness ==
    /\ pc = "sleep"
    /\ ev.user = user_ids[NumUsers]
    /\ ev.kind = "updated"
    /\ ev.refresh = "ok"
    /\ ev.tokens[1] # ev.tokens[2]
    /\ access_token = ev.tokens[2]

\* ------------------------------------------------------------------ C19

\* C19: a step changes the gauges only if the last response it got has status 200; a
\* step that skips its identity, abandons the cycle or sleeps leaves every child as it
\* was; and a step changes or creates only children whose user_id label is the
\* identity the step fetched (the API answers a fetch with the record of the
\* requested id), every other child keeps its value.
C19_GaugeFrame ==
    [][ /\ gauges' # gauges
           => /\ pc = "loop"
              /\ ev'.outcomes # <<>>
              /\ LastOutcome(ev').status = 200
        /\ DOMAIN gauges \subseteq DOMAIN gauges'
        /\ \A c \in Touched(gauges, gauges') : c[2][1] = user_ids[idx]
      ]_vars

\* the first identity has been skipped in a cycle after the one that set its gauges,
\* which hold the values of that earlier cycle; the gauges of the second identity hold
\* other values
C19_Witness ==
    /\ pc = "loop"
    /\ idx = 2
    /\ ev.kind = "skipped"
    /\ ev.user = user_ids[1]
    /\ <<"pp", <<user_ids[1], "foo">>>> \in DOMAIN gauges
    /\ <<"pp", <<user_ids[2], "foo">>>> \in DOMAIN gauges
    /\ gauges[<<"pp", <<user_ids[1], "foo">>>>] = MaxValue
    /\ gauges[<<"pp", <<user_ids[2], "foo">>>>] = 1

\* ------------------------------------------------------------------ C20

====
